---- MODULE Spec2Model ----
(***************************************************************************)
(* Model of the NPHIES-AI platform's admission core (src/main.py): the     *)
(* sliding-window SimpleRateLimiter, the JWT guard secure_endpoint /       *)
(* secure_websocket built on it, the /auth/token endpoint, the             *)
(* ConnectionManager registry and the /chat event-stream generator.        *)
(*                                                                         *)
(* Time is an integer number of seconds.  A task is one coroutine that     *)
(* the event loop runs: a direct caller of hit(), an HTTP request, or a    *)
(* WebSocket handshake.                                                    *)
(***************************************************************************)
EXTENDS Integers, Sequences, FiniteSets, TLC

\* ---------------------------------------------------------------- bounds
NumTasks == 2          \* coroutines that may be in flight at once
MaxTime == 2           \* the clock stops advancing here
MaxCalls == 3          \* direct calls of hit() in one behaviour
MaxRequests == 2       \* requests that arrive in one behaviour
MaxFrames == 1         \* frames received on one WebSocket

\* ------------------------------------------------- configuration values
WindowSeconds == 1     \* API_RATE_LIMIT_WINDOW (rate_limiter.window_seconds)
Limits == {1, 2}       \* values of API_RATE_LIMIT (rate_limiter.limit)

Tasks == 1..NumTasks
NoTask == 0
NoKey == "-"
HitKeys == {"k1", "k2"}     \* keys handed to hit() by direct callers

VARIABLES
    clock,      \* time.monotonic(), in seconds
    limit,      \* rate_limiter.limit
    calls,      \* rate_limiter.calls : key -> deque of timestamps
    lock,       \* rate_limiter.lock : the task holding it, or NoTask
    running,    \* the task the event loop is running between two suspension points
    preempt,    \* TRUE: a task switch may happen after every statement
    pc,         \* per task: where it stands
    key,        \* per task: the key of its hit() call
    now,        \* per task: the local `now` of its hit() call
    ncalls,     \* number of hit() calls / requests started so far
    log,        \* per key: every timestamp hit() ever admitted, in order of admission
    trail,      \* per task: the checks its current call has passed
    req,        \* per task: the request or connection it serves (number, route, token, peer, form)
    status,     \* per task: HTTP status or WebSocket close code sent, 0 = none
    frames,     \* per task: frames received or sent on its WebSocket
    active_connections,  \* manager.active_connections
    message,    \* /chat: the ChatMessage body of the request being answered
    gpc,        \* /chat: where generate_response stands
    session_id, \* /chat: generate_response's local session_id
    words,      \* /chat: ai_response.split()
    response_text,  \* /chat: the words joined so far
    i,          \* /chat: the loop index of the chunk loop
    events,     \* /chat: the events the stream has carried, in order
    agui_request,   \* agent: the AGUIRequest being processed
    apc,        \* agent: where process_nphies_request stands
    aevents,    \* agent: the event types the generator has handed to its consumer
    aclosed,    \* agent: number of events handed over when the consumer went away, -1 before
    araised,    \* agent: the exception that left the generator's close, "" if none
    bpc,        \* manager: where broadcast stands
    bidx,       \* manager: the index of broadcast's list iterator
    bstart,     \* manager: active_connections when the broadcast began
    delivered,  \* manager: per connection, how often the broadcast payload reached it
    failing,    \* manager: the connections whose send_text raises
    mraised,    \* manager: the exception the last manager call raised, "" if none
    accepted,   \* manager: the connections manager.connect was ever called for
    issued,     \* token: the last token POST /auth/token returned
    presented,  \* token: the token last handed to decode_token
    outcome,    \* token: what decode_token did with it
    answer,     \* token: what POST /auth/token answered last, and to which form
    svc,        \* /ai/*, /health-services/*: the request being served and its answer
    gate        \* /ag-ui/chat: the request being served and its answer

chatVars == <<message, gpc, session_id, words, response_text, i, events>>
agentVars == <<agui_request, apc, aevents, aclosed, araised>>
managerVars == <<bpc, bidx, bstart, delivered, failing, mraised, accepted>>
tokenVars == <<issued, presented, outcome, answer>>
endpointVars == <<svc, gate>>
otherVars == <<agentVars, managerVars, tokenVars, endpointVars>>
guardVars == <<req, status, frames, active_connections, chatVars, otherVars>>
serverVarsButConns == <<clock, limit, calls, lock, running, preempt, pc, key, now, ncalls, log, trail,
                        req, status, frames>>
serverVars == <<clock, limit, calls, lock, running, preempt, pc, key, now, ncalls, log, trail,
                req, status, frames, active_connections>>
vars == <<clock, limit, calls, lock, running, preempt, pc, key, now, ncalls, log, trail,
          req, status, frames, active_connections, message, gpc, session_id, words,
          response_text, i, events, agui_request, apc, aevents, aclosed, araised,
          bpc, bidx, bstart, delivered, failing, mraised, accepted, issued, presented, outcome, answer,
          svc, gate>>

\* ------------------------------------------------- requests and tokens

NoRoute == "-"
NoClient == "-"
NoSub == "None"
SERVICE_ACCOUNT_USERNAME == "nphies_service"
SERVICE_ACCOUNT_PASSWORD == "nphies-dev-password"
SECRET_KEY == "change-me-in-production"

\* a bearer token as the server sees it: well-formed or not, the secret it
\* was signed with, its `sub` claim (NoSub: none) and its `exp` claim
NoToken == [kind |-> "none", secret |-> "", sub |-> NoSub, exp |-> 0]
Jwt(secret, sub, exp) == [kind |-> "jwt", secret |-> secret, sub |-> sub, exp |-> exp]
Garbage == [kind |-> "garbage", secret |-> "", sub |-> NoSub, exp |-> 0]

\* /chat: an absent session_id (None) and the state before a request
NoSession == "None"
NoMessage == [language |-> "", session_id |-> NoSession]

\* agent: the state before a request (AGUIRequest.nphies_data, .multimodal_data)
NoAguiRequest == [nphies_data |-> FALSE, multimodal_data |-> FALSE]

\* token: decode_token has not run
NoOutcome == [status |-> 0, sub |-> NoSub, at |-> 0, detail |-> ""]
NoAnswer == [status |-> 0, detail |-> "", user |-> "", pw |-> ""]

\* /ai/*, /health-services/*: the state before a request
NoService == [ep |-> NoRoute, text |-> "", client |-> FALSE, fails |-> FALSE,
              pc |-> "idle", status |-> 0, payload |-> ""]

\* /ag-ui/chat: the state before a request
NoGate == [user_role |-> "", session_id |-> "", nphies_data |-> FALSE, multimodal_data |-> FALSE,
           pc |-> "idle", status |-> 0, streaming |-> FALSE]

NoReq == [id |-> 0, ep |-> NoRoute, tok |-> NoToken, peer |-> NoClient, user |-> "", pw |-> ""]

\* ------------------------------------------------------ SimpleRateLimiter

\* mutant of SetDefault: a new key replaces the dict
SetDefault_reset(c, k) == IF k \in DOMAIN c THEN c ELSE [x \in {k} |-> <<>>]

\* self.calls.setdefault(key, deque())
SetDefault(c, k) == IF k \in DOMAIN c THEN c ELSE [x \in DOMAIN c \cup {k} |-> IF x = k THEN <<>> ELSE c[x]]

\* mutant of PruneCond: the boundary timestamp (exactly window_seconds old) is dropped too
PruneCond_ge(bucket, n) == Len(bucket) > 0 /\ n - Head(bucket) >= WindowSeconds

\* mutant of PruneCond: a timestamp stays one second past the window
PruneCond_late(bucket, n) == Len(bucket) > 0 /\ n - Head(bucket) > WindowSeconds + 1

\* while bucket and now - bucket[0] > self.window_seconds
PruneCond(bucket, n) == Len(bucket) > 0 /\ n - Head(bucket) > WindowSeconds

\* mutant of BucketFull: off by one, the bucket takes limit + 1 timestamps
BucketFull_gt(bucket) == Len(bucket) > limit

\* if len(bucket) >= self.limit
BucketFull(bucket) == Len(bucket) >= limit

\* Scheduling.  asyncio is cooperative: a coroutine keeps the event loop until
\* it awaits something that is not ready.  hit() holds no such await: the
\* lock is free whenever a task reaches `async with self.lock`, because its
\* body (lines 118-123) never suspends.  With preempt = TRUE the model drops
\* that assumption and lets any task run after every statement.
CanRun(t) == running \in {NoTask, t}
Keep(t) == IF preempt THEN NoTask ELSE t

\* now = time.monotonic()
HitClock(t) ==
    /\ pc[t] = "hit"
    /\ CanRun(t)
    /\ now' = [now EXCEPT ![t] = clock]
    /\ pc' = [pc EXCEPT ![t] = "acquire"]
    /\ trail' = [trail EXCEPT ![t] = @ \cup {"hit"}]
    /\ running' = Keep(t)
    /\ UNCHANGED <<clock, limit, calls, lock, preempt, key, ncalls, log, guardVars>>

\* async with self.lock:  bucket = self.calls.setdefault(key, deque())
HitAcquire(t) ==
    /\ pc[t] = "acquire"
    /\ CanRun(t)
    /\ lock = NoTask
    /\ lock' = t
    /\ calls' = SetDefault(calls, key[t])
    /\ pc' = [pc EXCEPT ![t] = "prune"]
    /\ running' = Keep(t)
    /\ UNCHANGED <<clock, limit, preempt, key, now, ncalls, log, trail, guardVars>>

\* one test of the while loop: popleft, or leave the loop
HitPrune(t) ==
    /\ pc[t] = "prune"
    /\ CanRun(t)
    /\ IF PruneCond(calls[key[t]], now[t])
       THEN /\ calls' = [calls EXCEPT ![key[t]] = Tail(@)]
            /\ pc' = pc
       ELSE /\ calls' = calls
            /\ pc' = [pc EXCEPT ![t] = "check"]
    /\ running' = Keep(t)
    /\ UNCHANGED <<clock, limit, lock, preempt, key, now, ncalls, log, trail, guardVars>>

\* mutant of HitCheck: bucket.appendleft(now)
HitCheck_appendleft(t) ==
    /\ pc[t] = "check"
    /\ CanRun(t)
    /\ LET full == BucketFull(calls[key[t]]) IN
       /\ calls' = IF full THEN calls ELSE [calls EXCEPT ![key[t]] = <<now[t]>> \o @]
       /\ pc' = [pc EXCEPT ![t] = IF full THEN "limited" ELSE "admitted"]
       /\ log' = IF full THEN log
                  ELSE [SetDefault(log, key[t]) EXCEPT ![key[t]] = Append(@, now[t])]
       /\ trail' = [trail EXCEPT ![t] = IF full THEN @ ELSE @ \cup {"admitted"}]
    /\ lock' = NoTask
    /\ running' = IF req[t].ep = NoRoute THEN NoTask ELSE Keep(t)
    /\ UNCHANGED <<clock, limit, preempt, key, now, ncalls, guardVars>>

\* mutant of HitCheck: a rejected call leaves its timestamp in place of the newest
HitCheck_countRejected(t) ==
    /\ pc[t] = "check"
    /\ CanRun(t)
    /\ LET full == BucketFull(calls[key[t]]) IN
       /\ calls' = IF full THEN [calls EXCEPT ![key[t]] = Append(SubSeq(@, 1, Len(@) - 1), now[t])]
                  ELSE [calls EXCEPT ![key[t]] = Append(@, now[t])]
       /\ pc' = [pc EXCEPT ![t] = IF full THEN "limited" ELSE "admitted"]
       /\ log' = IF full THEN log
                  ELSE [SetDefault(log, key[t]) EXCEPT ![key[t]] = Append(@, now[t])]
       /\ trail' = [trail EXCEPT ![t] = IF full THEN @ ELSE @ \cup {"admitted"}]
    /\ lock' = NoTask
    /\ running' = IF req[t].ep = NoRoute THEN NoTask ELSE Keep(t)
    /\ UNCHANGED <<clock, limit, preempt, key, now, ncalls, guardVars>>

\* raise HTTPException(429) or bucket.append(now); the lock is released.
\* A direct caller holds the outcome while other coroutines run; a guard
\* goes on without suspending.
HitCheck(t) ==
    /\ pc[t] = "check"
    /\ CanRun(t)
    /\ LET full == BucketFull(calls[key[t]]) IN
       /\ calls' = IF full THEN calls ELSE [calls EXCEPT ![key[t]] = Append(@, now[t])]
       /\ pc' = [pc EXCEPT ![t] = IF full THEN "limited" ELSE "admitted"]
       /\ log' = IF full THEN log
                  ELSE [SetDefault(log, key[t]) EXCEPT ![key[t]] = Append(@, now[t])]
       /\ trail' = [trail EXCEPT ![t] = IF full THEN @ ELSE @ \cup {"admitted"}]
    /\ lock' = NoTask
    /\ running' = IF req[t].ep = NoRoute THEN NoTask ELSE Keep(t)
    /\ UNCHANGED <<clock, limit, preempt, key, now, ncalls, guardVars>>

\* the clock advances
Tick ==
    /\ clock < MaxTime
    /\ clock' = clock + 1
    /\ UNCHANGED <<limit, calls, lock, running, preempt, pc, key, now, ncalls, log, trail, guardVars>>

\* a coroutine calls rate_limiter.hit(k)
CallHit(t, k) ==
    /\ pc[t] = "idle"
    /\ running = NoTask
    /\ ncalls < MaxCalls
    /\ ncalls' = ncalls + 1
    /\ key' = [key EXCEPT ![t] = k]
    /\ pc' = [pc EXCEPT ![t] = "hit"]
    /\ running' = Keep(t)
    /\ UNCHANGED <<clock, limit, calls, lock, preempt, now, log, trail, guardVars>>

\* the caller takes the outcome of hit() and is free to call again
ReturnHit(t) ==
    /\ pc[t] \in {"admitted", "limited"}
    /\ req[t].ep = NoRoute
    /\ CanRun(t)
    /\ pc' = [pc EXCEPT ![t] = "idle"]
    /\ key' = [key EXCEPT ![t] = NoKey]
    /\ now' = [now EXCEPT ![t] = 0]
    /\ trail' = [trail EXCEPT ![t] = {}]
    /\ running' = NoTask
    /\ UNCHANGED <<clock, limit, calls, lock, preempt, ncalls, log, guardVars>>

\* no agent request yet
AgentInit ==
    /\ agui_request = NoAguiRequest
    /\ apc = "idle"
    /\ aevents = <<>>
    /\ aclosed = -1
    /\ araised = ""

\* ConnectionManager.__init__; no broadcast yet
ManagerInit ==
    /\ bpc = "idle"
    /\ bidx = 0
    /\ bstart = <<>>
    /\ delivered = <<>>
    /\ failing = {}
    /\ mraised = ""
    /\ accepted = {}

\* no request to the service endpoints or to /ag-ui/chat yet
EndpointInit ==
    /\ svc = NoService
    /\ gate = NoGate

\* no token issued or decoded yet
TokenInit ==
    /\ issued = NoToken
    /\ presented = NoToken
    /\ outcome = NoOutcome
    /\ answer = NoAnswer

LimiterInit ==
    /\ clock = 0
    /\ limit \in Limits
    /\ calls = <<>>
    /\ lock = NoTask
    /\ running = NoTask
    /\ pc = [t \in Tasks |-> "idle"]
    /\ key = [t \in Tasks |-> NoKey]
    /\ now = [t \in Tasks |-> 0]
    /\ ncalls = 0
    /\ log = <<>>
    /\ trail = [t \in Tasks |-> {}]
    /\ req = [t \in Tasks |-> NoReq]
    /\ status = [t \in Tasks |-> 0]
    /\ frames = [t \in Tasks |-> 0]
    /\ active_connections = <<>>
    /\ message = NoMessage
    /\ gpc = "idle"
    /\ session_id = NoSession
    /\ words = <<>>
    /\ response_text = <<>>
    /\ i = 0
    /\ events = <<>>
    /\ AgentInit
    /\ ManagerInit
    /\ TokenInit
    /\ EndpointInit

HitInit == LimiterInit /\ preempt = FALSE
HitPreemptInit == LimiterInit /\ preempt = TRUE

HitNext ==
    \/ Tick
    \/ \E t \in Tasks : \E k \in HitKeys : CallHit(t, k)
    \/ \E t \in Tasks : HitClock(t)
    \/ \E t \in Tasks : HitAcquire(t)
    \/ \E t \in Tasks : HitPrune(t)
    \/ \E t \in Tasks : HitCheck(t)
    \/ \E t \in Tasks : ReturnHit(t)

\* hit() under asyncio's cooperative scheduling
SpecHit == HitInit /\ [][HitNext]_vars
\* hit() with a task switch allowed after every statement
SpecHitPreempt == HitPreemptInit /\ [][HitNext]_vars

\* ------------------------------------------------------------- the guard

\* the routes of main.py that take part in admission
HttpProtected ==
    {"/system/status", "/chat", "/nphies/claim",
     "/ai/bedrock-analyze", "/ai/sagemaker-predict", "/ai/textract-analyze",
     "/ai/personalize-recommend", "/ai/kendra-search", "/ai/analytics",
     "/ai/monitoring", "/ai/predict", "/ai/automate", "/ai/learn",
     "/ai/recommendations", "/ai/optimize",
     "/health-services/analyze-text", "/health-services/healthlake-status",
     "/health-services/transcribe"}
WsRoutes == {"/ws/chat", "/ws/monitoring"}
PublicRoutes == {"/health"}
Routes == HttpProtected \cup WsRoutes \cup PublicRoutes \cup {"/auth/token"}

\* mutant of Dependency: /chat is registered without Depends(secure_endpoint)
Dependency_chatOpen(e) ==
    IF e \in HttpProtected \ {"/chat"} THEN "secure_endpoint"
    ELSE IF e \in WsRoutes THEN "secure_websocket"
    ELSE IF e = "/auth/token" THEN "login"
    ELSE "none"

\* what each route runs before its handler body: Depends(secure_endpoint),
\* a call of secure_websocket, the login form check, or nothing
Dependency(e) ==
    IF e \in HttpProtected THEN "secure_endpoint"
    ELSE IF e \in WsRoutes THEN "secure_websocket"
    ELSE IF e = "/auth/token" THEN "login"
    ELSE "none"

\* mutant of DecodeOk: the signature is not verified
DecodeOk_anySecret(tok, time) ==
    /\ tok.kind = "jwt"
    /\ tok.exp >= time
    /\ tok.sub # NoSub

\* mutant of DecodeOk: the expiry is not verified
DecodeOk_noExpiry(tok, time) ==
    /\ tok.kind = "jwt"
    /\ tok.secret = SECRET_KEY
    /\ tok.sub # NoSub

\* decode_token returns an identity: jwt.decode verifies structure, signature
\* and expiry (a JWTError otherwise), and `sub` must be present
DecodeOk(tok, time) ==
    /\ tok.kind = "jwt"
    /\ tok.secret = SECRET_KEY
    /\ tok.exp >= time
    /\ tok.sub # NoSub

\* mutant of RateKey: every caller is keyed by its peer address
RateKey_peer(name, peer) == IF peer # NoClient THEN peer ELSE "anonymous"

\* name or (client.host if client else "anonymous")
RateKey(name, peer) ==
    IF name # "" THEN name ELSE IF peer # NoClient THEN peer ELSE "anonymous"

\* verify_password without a configured hash: secrets.compare_digest
verify_password(pw) == pw = SERVICE_ACCOUNT_PASSWORD

authenticate_user(user, pw) ==
    IF user # SERVICE_ACCOUNT_USERNAME THEN FALSE ELSE verify_password(pw)

\* the tokens and peers a caller may present
FarExp == MaxTime + 1
GoodToken == Jwt(SECRET_KEY, SERVICE_ACCOUNT_USERNAME, FarExp)
Credentials ==
    { [tok |-> NoToken, peer |-> "10.0.0.1"],
      [tok |-> Garbage, peer |-> "10.0.0.1"],
      [tok |-> Jwt("other-secret", SERVICE_ACCOUNT_USERNAME, FarExp), peer |-> "10.0.0.1"],
      [tok |-> Jwt(SECRET_KEY, SERVICE_ACCOUNT_USERNAME, 0), peer |-> "10.0.0.1"],
      [tok |-> GoodToken, peer |-> "10.0.0.1"],
      [tok |-> Jwt(SECRET_KEY, "", FarExp), peer |-> "10.0.0.1"],
      [tok |-> Jwt(SECRET_KEY, "", FarExp), peer |-> NoClient] }
PlainCredentials ==
    { [tok |-> NoToken, peer |-> "10.0.0.1"], [tok |-> GoodToken, peer |-> "10.0.0.1"] }

\* the requests that arrive: /chat with every credential, /ws/chat with every
\* token, every other route without a token and with a good one
Requests ==
    {[ep |-> "/chat", tok |-> c.tok, peer |-> c.peer] : c \in Credentials}
    \cup {[ep |-> "/ws/chat", tok |-> c.tok, peer |-> c.peer] : c \in {d \in Credentials : d.tok.sub # ""}}
    \cup {[ep |-> e, tok |-> c.tok, peer |-> c.peer] :
             e \in Routes \ {"/chat", "/ws/chat", "/auth/token"}, c \in PlainCredentials}
Usernames == {SERVICE_ACCOUNT_USERNAME, "mallory"}
Passwords == {SERVICE_ACCOUNT_PASSWORD, "guess"}

\* where a rejected handshake goes after `raise WebSocketDisconnect()`:
\* websocket_chat / websocket_monitoring catch it and return
\* mutant: the except clause falls through to manager.connect
AfterWsReject_fallthrough == "accept"
AfterWsReject == "responded"

\* a request arrives at route e; FastAPI resolves the route's dependencies
StartRequest(t, r) ==
    /\ pc[t] = "idle"
    /\ running = NoTask
    /\ \A s \in Tasks : s < t => pc[s] # "idle"
    /\ ncalls < MaxRequests
    /\ ncalls' = ncalls + 1
    /\ req' = [req EXCEPT ![t] = [id |-> ncalls', ep |-> r.ep, tok |-> r.tok, peer |-> r.peer, user |-> "", pw |-> ""]]
    /\ pc' = [pc EXCEPT ![t] =
                 IF Dependency(r.ep) = "secure_endpoint" THEN "auth"
                 ELSE IF Dependency(r.ep) = "secure_websocket" THEN "wsauth"
                 ELSE "handler"]
    /\ running' = Keep(t)
    /\ UNCHANGED <<clock, limit, calls, lock, preempt, key, now, log, trail, status, frames, active_connections, chatVars, otherVars>>

\* POST /auth/token with a login form
StartLogin(t, u, p) ==
    /\ pc[t] = "idle"
    /\ running = NoTask
    /\ \A s \in Tasks : s < t => pc[s] # "idle"
    /\ ncalls < MaxRequests
    /\ ncalls' = ncalls + 1
    /\ req' = [req EXCEPT ![t] = [id |-> ncalls', ep |-> "/auth/token", tok |-> NoToken, peer |-> "10.0.0.1", user |-> u, pw |-> p]]
    /\ pc' = [pc EXCEPT ![t] = "login"]
    /\ running' = Keep(t)
    /\ UNCHANGED <<clock, limit, calls, lock, preempt, key, now, log, trail, status, frames, active_connections, chatVars, otherVars>>

\* get_current_token: oauth2_scheme answers 401 without a bearer token,
\* decode_token raises 401; then secure_endpoint derives the key
Auth(t) ==
    /\ pc[t] = "auth"
    /\ CanRun(t)
    /\ IF DecodeOk(req[t].tok, clock)
       THEN /\ key' = [key EXCEPT ![t] = RateKey(req[t].tok.sub, req[t].peer)]
            /\ trail' = [trail EXCEPT ![t] = @ \cup {"token"}]
            /\ pc' = [pc EXCEPT ![t] = "hit"]
            /\ status' = status
            /\ running' = Keep(t)
       ELSE /\ status' = [status EXCEPT ![t] = 401]
            /\ pc' = [pc EXCEPT ![t] = "responded"]
            /\ running' = Keep(t)
            /\ UNCHANGED <<key, trail, chatVars, otherVars>>
    /\ UNCHANGED <<clock, limit, calls, lock, preempt, now, ncalls, log, req, frames, active_connections, chatVars, otherVars>>

\* hit() returned: request.state.user = token_data, the handler body starts
GuardPass(t) ==
    /\ pc[t] = "admitted"
    /\ Dependency(req[t].ep) = "secure_endpoint"
    /\ CanRun(t)
    /\ pc' = [pc EXCEPT ![t] = "handler"]
    /\ running' = Keep(t)
    /\ key' = [key EXCEPT ![t] = NoKey]
    /\ now' = [now EXCEPT ![t] = 0]
    /\ UNCHANGED <<clock, limit, calls, lock, preempt, ncalls, log, trail, guardVars>>

\* hit() raised HTTPException(429): it is the response
GuardLimited(t) ==
    /\ pc[t] = "limited"
    /\ Dependency(req[t].ep) \in {"secure_endpoint", "login"}
    /\ CanRun(t)
    /\ status' = [status EXCEPT ![t] = 429]
    /\ pc' = [pc EXCEPT ![t] = "responded"]
    /\ running' = Keep(t)
    /\ key' = [key EXCEPT ![t] = NoKey]
    /\ now' = [now EXCEPT ![t] = 0]
    /\ UNCHANGED <<clock, limit, calls, lock, preempt, ncalls, log, trail, req, frames, active_connections, chatVars, otherVars>>

\* the handler body of an HTTP route runs and answers
Handler(t) ==
    /\ pc[t] = "handler"
    /\ CanRun(t)
    /\ status' = [status EXCEPT ![t] = 200]
    /\ pc' = [pc EXCEPT ![t] = "responded"]
    /\ running' = Keep(t)
    /\ UNCHANGED <<clock, limit, calls, lock, preempt, key, now, ncalls, log, trail, req, frames, active_connections, chatVars, otherVars>>

\* login_for_access_token up to the call of hit()
Login(t) ==
    /\ pc[t] = "login"
    /\ CanRun(t)
    /\ IF ~authenticate_user(req[t].user, req[t].pw)
       THEN /\ status' = [status EXCEPT ![t] = 400]
            /\ pc' = [pc EXCEPT ![t] = "responded"]
            /\ running' = Keep(t)
            /\ key' = key
       ELSE /\ key' = [key EXCEPT ![t] = RateKey(req[t].user, req[t].peer)]
            /\ pc' = [pc EXCEPT ![t] = "hit"]
            /\ status' = status
            /\ running' = Keep(t)
    /\ UNCHANGED <<clock, limit, calls, lock, preempt, now, ncalls, log, trail, req, frames, active_connections, chatVars, otherVars>>

\* create_access_token({"sub": username}); the TokenResponse is returned
LoginIssue(t) ==
    /\ pc[t] = "admitted"
    /\ Dependency(req[t].ep) = "login"
    /\ CanRun(t)
    /\ status' = [status EXCEPT ![t] = 200]
    /\ pc' = [pc EXCEPT ![t] = "responded"]
    /\ running' = Keep(t)
    /\ key' = [key EXCEPT ![t] = NoKey]
    /\ now' = [now EXCEPT ![t] = 0]
    /\ UNCHANGED <<clock, limit, calls, lock, preempt, ncalls, log, trail, req, frames, active_connections, chatVars, otherVars>>

\* secure_websocket up to the call of hit(): no token or a token that does
\* not decode: await websocket.close(code=4401).  The close and the raise
\* that follows touch no shared state: other coroutines are not interleaved
\* with them.
WsAuth(t) ==
    /\ pc[t] = "wsauth"
    /\ CanRun(t)
    /\ IF req[t].tok # NoToken /\ DecodeOk(req[t].tok, clock)
       THEN /\ key' = [key EXCEPT ![t] = RateKey(req[t].tok.sub, req[t].peer)]
            /\ trail' = [trail EXCEPT ![t] = @ \cup {"token"}]
            /\ pc' = [pc EXCEPT ![t] = "hit"]
            /\ status' = status
            /\ running' = Keep(t)
       ELSE /\ status' = [status EXCEPT ![t] = 4401]
            /\ pc' = [pc EXCEPT ![t] = "closing"]
            /\ running' = Keep(t)
            /\ UNCHANGED <<key, trail, chatVars, otherVars>>
    /\ UNCHANGED <<clock, limit, calls, lock, preempt, now, ncalls, log, req, frames, active_connections, chatVars, otherVars>>

\* hit() raised: await websocket.close(code=4429)
WsLimited(t) ==
    /\ pc[t] = "limited"
    /\ Dependency(req[t].ep) = "secure_websocket"
    /\ CanRun(t)
    /\ status' = [status EXCEPT ![t] = 4429]
    /\ pc' = [pc EXCEPT ![t] = "closing"]
    /\ running' = Keep(t)
    /\ key' = [key EXCEPT ![t] = NoKey]
    /\ now' = [now EXCEPT ![t] = 0]
    /\ UNCHANGED <<clock, limit, calls, lock, preempt, ncalls, log, trail, req, frames, active_connections, chatVars, otherVars>>

\* raise WebSocketDisconnect(): the route's `except WebSocketDisconnect: return`
WsReject(t) ==
    /\ pc[t] = "closing"
    /\ CanRun(t)
    /\ pc' = [pc EXCEPT ![t] = AfterWsReject]
    /\ running' = Keep(t)
    /\ UNCHANGED <<clock, limit, calls, lock, preempt, key, now, ncalls, log, trail, guardVars>>

\* hit() returned: scope["state"]["user"] is set, secure_websocket returns and
\* the route calls manager.connect: await websocket.accept()
WsPass(t) ==
    /\ pc[t] = "admitted"
    /\ Dependency(req[t].ep) = "secure_websocket"
    /\ CanRun(t)
    /\ pc' = [pc EXCEPT ![t] = "accept"]
    /\ running' = NoTask
    /\ key' = [key EXCEPT ![t] = NoKey]
    /\ now' = [now EXCEPT ![t] = 0]
    /\ UNCHANGED <<clock, limit, calls, lock, preempt, ncalls, log, trail, guardVars>>

\* mutant of Connect: the connection is appended twice
Connect_twice(conns, w) == Append(Append(conns, w), w)

\* self.active_connections.append(websocket)
Connect(conns, w) == Append(conns, w)

\* manager.connect after the accept: self.active_connections.append(websocket)
WsConnect(t) ==
    /\ pc[t] = "accept"
    /\ CanRun(t)
    /\ active_connections' = Connect(active_connections, req[t].id)
    /\ pc' = [pc EXCEPT ![t] = "open"]
    /\ running' = NoTask
    /\ UNCHANGED <<clock, limit, calls, lock, preempt, key, now, ncalls, log, trail, req, status, frames, chatVars, otherVars>>

\* self.active_connections.remove(websocket): the first occurrence goes
RECURSIVE Remove(_, _)
Remove(conns, w) ==
    IF conns = <<>> THEN <<>>
    ELSE IF Head(conns) = w THEN Tail(conns)
    ELSE <<Head(conns)>> \o Remove(Tail(conns), w)

\* the connection of task t is in manager.active_connections
Registered(t) == \E n \in 1..Len(active_connections) : active_connections[n] = req[t].id

\* text frames a client can send: a JSON object whose "message" is a string
\* or absent, a JSON object whose "message" is not a string (null, a number),
\* text that is not JSON, JSON that is not an object
FrameKinds == {"object", "badmessage", "notjson", "notobject"}
JsonObjects == {"object", "badmessage"}

\* /ws/chat: data = await websocket.receive_text(); json.loads(data);
\* get_healthcare_response(message_data.get("message", "")).  A frame that is
\* not a JSON object, or whose "message" has no lower(), raises an exception
\* the route does not catch: the handler ends there.
WsReceive(t, f) ==
    /\ pc[t] = "open"
    /\ req[t].ep = "/ws/chat"
    /\ CanRun(t)
    /\ frames[t] < MaxFrames
    /\ frames' = [frames EXCEPT ![t] = @ + 1]
    /\ pc' = [pc EXCEPT ![t] = IF f = "object" THEN "reply" ELSE "responded"]
    /\ running' = Keep(t)
    /\ UNCHANGED <<clock, limit, calls, lock, preempt, key, now, ncalls, log, trail, req, status, active_connections, chatVars, otherVars>>

\* mutant of WsReply: the loop consults the limiter again after every reply
WsReply_recheck(t) ==
    /\ pc[t] = "reply"
    /\ CanRun(t)
    /\ frames' = [frames EXCEPT ![t] = @ + 1]
    /\ key' = [key EXCEPT ![t] = RateKey(req[t].tok.sub, req[t].peer)]
    /\ pc' = [pc EXCEPT ![t] = "hit"]
    /\ running' = Keep(t)
    /\ UNCHANGED <<clock, limit, calls, lock, preempt, now, ncalls, log, trail, req, status, active_connections, chatVars, otherVars>>

\* /ws/chat: await manager.send_personal_message(ai_response, websocket)
WsReply(t) ==
    /\ pc[t] = "reply"
    /\ CanRun(t)
    /\ frames' = [frames EXCEPT ![t] = @ + 1]
    /\ pc' = [pc EXCEPT ![t] = "open"]
    /\ running' = NoTask
    /\ UNCHANGED <<clock, limit, calls, lock, preempt, key, now, ncalls, log, trail, req, status, active_connections, chatVars, otherVars>>

\* /ws/monitoring: send_personal_message(monitoring_data); asyncio.sleep(3)
WsPush(t) ==
    /\ pc[t] = "open"
    /\ req[t].ep = "/ws/monitoring"
    /\ CanRun(t)
    /\ frames[t] < MaxFrames
    /\ frames' = [frames EXCEPT ![t] = @ + 1]
    /\ running' = NoTask
    /\ UNCHANGED <<clock, limit, calls, lock, preempt, pc, key, now, ncalls, log, trail, req, status, active_connections, chatVars, otherVars>>

\* the peer closes: the pending receive / send raises WebSocketDisconnect,
\* and the route runs manager.disconnect(websocket)
WsPeerClose(t) ==
    /\ pc[t] = "open"
    /\ CanRun(t)
    /\ active_connections' = Remove(active_connections, req[t].id)
    /\ pc' = [pc EXCEPT ![t] = "responded"]
    /\ running' = Keep(t)
    /\ UNCHANGED <<clock, limit, calls, lock, preempt, key, now, ncalls, log, trail, req, status, frames, chatVars, otherVars>>

\* the response is out (or the handler has ended): the coroutine is gone
Finish(t) ==
    /\ pc[t] = "responded"
    /\ CanRun(t)
    /\ pc' = [pc EXCEPT ![t] = "idle"]
    /\ key' = [key EXCEPT ![t] = NoKey]
    /\ now' = [now EXCEPT ![t] = 0]
    /\ trail' = [trail EXCEPT ![t] = {}]
    /\ req' = [req EXCEPT ![t] = NoReq]
    /\ status' = [status EXCEPT ![t] = 0]
    /\ frames' = [frames EXCEPT ![t] = 0]
    /\ running' = NoTask
    /\ UNCHANGED <<clock, limit, calls, lock, preempt, ncalls, log, active_connections, chatVars, otherVars>>

\* the clock advances while the event loop is between two coroutine runs: a
\* run between two suspension points takes far less than one clock unit
TickIdle ==
    /\ running = NoTask
    /\ Tick

Init == LimiterInit /\ preempt = FALSE

Next ==
    \/ TickIdle
    \/ \E t \in Tasks : \E r \in Requests : StartRequest(t, r)
    \/ \E t \in Tasks : \E u \in Usernames : \E p \in Passwords : StartLogin(t, u, p)
    \/ \E t \in Tasks : Auth(t)
    \/ \E t \in Tasks : Login(t)
    \/ \E t \in Tasks : WsAuth(t)
    \/ \E t \in Tasks : HitClock(t)
    \/ \E t \in Tasks : HitAcquire(t)
    \/ \E t \in Tasks : HitPrune(t)
    \/ \E t \in Tasks : HitCheck(t)
    \/ \E t \in Tasks : GuardPass(t)
    \/ \E t \in Tasks : GuardLimited(t)
    \/ \E t \in Tasks : Handler(t)
    \/ \E t \in Tasks : LoginIssue(t)
    \/ \E t \in Tasks : WsLimited(t)
    \/ \E t \in Tasks : WsReject(t)
    \/ \E t \in Tasks : WsPass(t)
    \/ \E t \in Tasks : WsConnect(t)
    \/ \E t \in Tasks : \E f \in FrameKinds : WsReceive(t, f)
    \/ \E t \in Tasks : WsReply(t)
    \/ \E t \in Tasks : WsPush(t)
    \/ \E t \in Tasks : WsPeerClose(t)
    \/ \E t \in Tasks : Finish(t)

\* the server under asyncio's cooperative scheduling
Spec == Init /\ [][Next]_vars

\* ------------------------------------------- /chat: generate_response

MaxWords == 25         \* the longest generated response, in words
chunk_size == 10

Languages == {"en", "ar"}
SessionIds == {NoSession, "s-1"}      \* message.session_id
Uuids == {"uuid-a", "uuid-b"}         \* values of str(uuid.uuid4())

\* the ChatMessage bodies that pass validation, as far as the stream shows them
ChatMessages == {[language |-> l, session_id |-> s] : l \in Languages, s \in SessionIds}

\* one event of the stream; a field an event kind does not carry is empty
Event(type) ==
    [type |-> type, session_id |-> NoSession, language |-> "", text |-> <<>>, progress |-> <<0, 1>>]

\* mutant of SessionEnd: the closing event carries no session_id
SessionEnd_noId(sid) == Event("session_end")

\* {'type': 'session_end', 'session_id': session_id}
SessionEnd(sid) == [Event("session_end") EXCEPT !.session_id = sid]

\* {'type': 'session_start', 'session_id': session_id, 'language': message.language}
SessionStart(sid, lang) == [Event("session_start") EXCEPT !.session_id = sid, !.language = lang]

\* mutant of Progress: the fraction is not capped at 1.0
Progress_uncapped(n, len) == <<n + chunk_size, len>>

\* min((i+chunk_size)/len(words), 1.0) as the fraction <<numerator, denominator>>
Progress(n, len) == IF n + chunk_size >= len THEN <<len, len>> ELSE <<n + chunk_size, len>>

\* words[i:i+chunk_size]
Chunk(w, n) == SubSeq(w, n + 1, IF n + chunk_size < Len(w) THEN n + chunk_size ELSE Len(w))

\* a text is a sequence of words (numbers from 1) and single spaces
Space == 0

\* " ".join(chunk)
Join(chunk) ==
    IF chunk = <<>> THEN <<>>
    ELSE [j \in 1..(2 * Len(chunk) - 1) |-> IF j % 2 = 1 THEN chunk[(j + 1) \div 2] ELSE Space]

\* mutant of Strip: the text is sent as it was accumulated
Strip_none(text) == text

\* text.strip(): leading and trailing whitespace is dropped
RECURSIVE Strip(_)
Strip(text) ==
    IF text = <<>> THEN <<>>
    ELSE IF Head(text) = Space THEN Strip(Tail(text))
    ELSE IF text[Len(text)] = Space THEN Strip(SubSeq(text, 1, Len(text) - 1))
    ELSE text

\* POST /chat passed the guard: StreamingResponse(generate_response()) is returned
\* and the transport starts to iterate the generator
ChatRequest(m) ==
    /\ gpc = "idle"
    /\ message' = m
    /\ gpc' = "start"
    /\ UNCHANGED <<session_id, words, response_text, i, events, serverVars, otherVars>>

\* session_id = message.session_id or str(uuid.uuid4()); yield session_start
ChatSessionStart(u) ==
    /\ gpc = "start"
    /\ session_id' = IF message.session_id # NoSession THEN message.session_id ELSE u
    /\ events' = Append(events, SessionStart(session_id', message.language))
    /\ gpc' = "thinking"
    /\ UNCHANGED <<message, words, response_text, i, serverVars, otherVars>>

\* yield thinking; await asyncio.sleep(0.5)
ChatThinking ==
    /\ gpc = "thinking"
    /\ events' = Append(events, Event("thinking"))
    /\ gpc' = "generate"
    /\ UNCHANGED <<message, session_id, words, response_text, i, serverVars, otherVars>>

\* ai_response = get_healthcare_response(...); words = ai_response.split();
\* response_text = "".  The response has n words, numbered 1..n.
ChatGenerate(n) ==
    /\ gpc = "generate"
    /\ words' = [j \in 1..n |-> j]
    /\ response_text' = <<>>
    /\ i' = 0
    /\ gpc' = "loop"
    /\ UNCHANGED <<message, session_id, events, serverVars, otherVars>>

\* get_healthcare_response raises: generate_response has no try/except, the
\* exception leaves the generator and the response is torn down
ChatGenerateRaises ==
    /\ gpc = "generate"
    /\ gpc' = "aborted"
    /\ UNCHANGED <<message, session_id, words, response_text, i, events, serverVars, otherVars>>

\* one turn of `for i in range(0, len(words), chunk_size)`:
\* response_text += " ".join(chunk) + " "; yield partial_response with
\* response_text.strip(); await asyncio.sleep(0.01)
ChatChunk ==
    /\ gpc = "loop"
    /\ i < Len(words)
    /\ response_text' = response_text \o Join(Chunk(words, i)) \o <<Space>>
    /\ events' = Append(events, [Event("partial_response") EXCEPT
                                    !.text = Strip(response_text'), !.progress = Progress(i, Len(words))])
    /\ i' = i + chunk_size
    /\ UNCHANGED <<message, gpc, session_id, words, serverVars, otherVars>>

\* the loop is over: yield final_response
ChatFinal ==
    /\ gpc = "loop"
    /\ i >= Len(words)
    /\ events' = Append(events, [Event("final_response") EXCEPT
                                    !.text = words, !.language = message.language])
    /\ gpc' = "end"
    /\ UNCHANGED <<message, session_id, words, response_text, i, serverVars, otherVars>>

\* yield session_end; the generator is exhausted
ChatSessionEnd ==
    /\ gpc = "end"
    /\ events' = Append(events, SessionEnd(session_id))
    /\ gpc' = "done"
    /\ UNCHANGED <<message, session_id, words, response_text, i, serverVars, otherVars>>

\* the client disconnects while the generator is suspended at a yield or a
\* sleep: the transport cancels the response and closes the generator
ChatDisconnect ==
    /\ gpc \in {"thinking", "generate", "loop", "end"}
    /\ Len(events) > 0
    /\ gpc' = "cancelled"
    /\ UNCHANGED <<message, session_id, words, response_text, i, events, serverVars, otherVars>>

ChatNext ==
    \/ \E m \in ChatMessages : ChatRequest(m)
    \/ \E u \in Uuids : ChatSessionStart(u)
    \/ ChatThinking
    \/ \E n \in 1..MaxWords : ChatGenerate(n)
    \/ ChatGenerateRaises
    \/ ChatChunk
    \/ ChatFinal
    \/ ChatSessionEnd
    \/ ChatDisconnect

\* one /chat stream
SpecChat == Init /\ [][ChatNext]_vars

\* ------------------------- agent: MASTERLINCAgent.process_nphies_request

\* the requests, as far as the pipeline branches on them
AguiRequests == {[nphies_data |-> n, multimodal_data |-> m] : n, m \in BOOLEAN}

\* the yields of the generator that lie inside its try or except block
InTry == {"y_delta", "y_thinking", "y_image", "y_text", "y_error"}

\* mutant of NextYield: after the ERROR event the stream goes straight to COMPLETE
NextYield_noEndAfterError(p, r) ==
    IF p = "y_start" /\ r.nphies_data THEN <<"state_delta", "y_delta">>
    ELSE IF p \in {"y_start", "y_delta"} /\ r.multimodal_data THEN <<"thinking", "y_thinking">>
    ELSE IF p = "y_thinking" THEN <<"text_message_content", "y_image">>
    ELSE IF p \in {"y_start", "y_delta", "y_image"} THEN <<"text_message_content", "y_text">>
    ELSE IF p = "y_text" THEN <<"tool_call_end", "y_end">>
    ELSE <<"complete", "y_complete">>

\* the yield the generator reaches next when it is resumed at position p and
\* nothing raises: <<event type, new position>>
NextYield(p, r) ==
    IF p = "y_start" /\ r.nphies_data THEN <<"state_delta", "y_delta">>
    ELSE IF p \in {"y_start", "y_delta"} /\ r.multimodal_data THEN <<"thinking", "y_thinking">>
    ELSE IF p = "y_thinking" THEN <<"text_message_content", "y_image">>
    ELSE IF p \in {"y_start", "y_delta", "y_image"} THEN <<"text_message_content", "y_text">>
    ELSE IF p \in {"y_text", "y_error"} THEN <<"tool_call_end", "y_end">>
    ELSE <<"complete", "y_complete">>

\* what closing does to a generator suspended at position p: inside try or
\* except the finally block runs and yields, which Python answers with
\* RuntimeError("async generator ignored GeneratorExit")
CloseRaises(p) == IF p \in InTry THEN "RuntimeError" ELSE ""

\* masterlinc.process_nphies_request(request) is called and iterated
AgentCall(r) ==
    /\ apc = "idle"
    /\ agui_request' = r
    /\ apc' = "start"
    /\ UNCHANGED <<aevents, aclosed, araised, serverVars, chatVars, managerVars, tokenVars, endpointVars>>

\* await self.audit_log(...); yield TOOL_CALL_START
AgentStart ==
    /\ apc = "start"
    /\ aevents' = Append(aevents, "tool_call_start")
    /\ apc' = "y_start"
    /\ UNCHANGED <<agui_request, aclosed, araised, serverVars, chatVars, managerVars, tokenVars, endpointVars>>

\* the consumer asks for the next event: the generator runs to its next yield
AgentResume ==
    /\ apc \in {"y_start", "y_delta", "y_thinking", "y_image", "y_text", "y_error", "y_end"}
    /\ aevents' = Append(aevents, NextYield(apc, agui_request)[1])
    /\ apc' = NextYield(apc, agui_request)[2]
    /\ UNCHANGED <<agui_request, aclosed, araised, serverVars, chatVars, managerVars, tokenVars, endpointVars>>

\* a step of the pipeline raises: except Exception: audit_log; yield ERROR
AgentRaises ==
    /\ apc \in {"y_start", "y_delta", "y_thinking", "y_image"}
    /\ aevents' = Append(aevents, "error")
    /\ apc' = "y_error"
    /\ UNCHANGED <<agui_request, aclosed, araised, serverVars, chatVars, managerVars, tokenVars, endpointVars>>

\* the generator is resumed after COMPLETE and ends
AgentEnd ==
    /\ apc = "y_complete"
    /\ apc' = "done"
    /\ UNCHANGED <<agui_request, aevents, aclosed, araised, serverVars, chatVars, managerVars, tokenVars, endpointVars>>

\* the consumer goes away while the generator is suspended at a yield: the
\* generator is closed (GeneratorExit is thrown in at that yield)
AgentClose ==
    /\ apc \in InTry \cup {"y_start", "y_end", "y_complete"}
    /\ aclosed' = Len(aevents)
    /\ araised' = CloseRaises(apc)
    /\ apc' = "closed"
    /\ UNCHANGED <<agui_request, aevents, serverVars, chatVars, managerVars, tokenVars, endpointVars>>

AgentNext ==
    \/ \E r \in AguiRequests : AgentCall(r)
    \/ AgentStart
    \/ AgentResume
    \/ AgentRaises
    \/ AgentEnd
    \/ AgentClose

\* one run of the agent generator
SpecAgent == Init /\ [][AgentNext]_vars

\* --------------------------------------------- ConnectionManager by itself

NumConns == 3          \* WebSocket connections that exist in one behaviour
Conns == 1..NumConns

Range(f) == {f[x] : x \in DOMAIN f}

\* await manager.connect(w): accept, then append; a handler calls it once for
\* its connection
MgrConnect(w) ==
    /\ w \notin accepted
    /\ accepted' = accepted \cup {w}
    /\ active_connections' = Connect(active_connections, w)
    /\ mraised' = ""
    /\ UNCHANGED <<bpc, bidx, bstart, delivered, failing, serverVarsButConns, chatVars, agentVars, tokenVars, endpointVars>>

\* manager.disconnect(w): list.remove(w) drops the first occurrence and raises
\* ValueError when there is none
MgrDisconnect(w) ==
    /\ w \in accepted
    /\ IF w \in Range(active_connections)
       THEN active_connections' = Remove(active_connections, w) /\ mraised' = ""
       ELSE active_connections' = active_connections /\ mraised' = "ValueError"
    /\ UNCHANGED <<bpc, bidx, bstart, delivered, failing, accepted, serverVarsButConns, chatVars, agentVars, tokenVars, endpointVars>>

\* the peer of a registered connection goes away: send_text on it will raise
MgrPeerGone(w) ==
    /\ w \in Range(active_connections)
    /\ w \notin failing
    /\ failing' = failing \cup {w}
    /\ UNCHANGED <<bpc, bidx, bstart, delivered, mraised, accepted, active_connections, serverVarsButConns, chatVars, agentVars, tokenVars, endpointVars>>

\* manager.broadcast(message) is called: the for loop creates its iterator
\* over self.active_connections itself
MgrBroadcast ==
    /\ bpc \in {"idle", "done", "aborted"}
    /\ bpc' = "iter"
    /\ bidx' = 0
    /\ bstart' = active_connections
    /\ delivered' = [c \in Conns |-> 0]
    /\ mraised' = ""
    /\ UNCHANGED <<failing, accepted, active_connections, serverVarsButConns, chatVars, agentVars, tokenVars, endpointVars>>

\* one turn of `for connection in self.active_connections`: the iterator
\* reads the list as it is now at its index; await connection.send_text(message)
\* delivers or raises, and an exception leaves broadcast
MgrBroadcastStep ==
    /\ bpc = "iter"
    /\ IF bidx >= Len(active_connections)
       THEN bpc' = "done" /\ UNCHANGED <<bidx, delivered, mraised>>
       ELSE LET c == active_connections[bidx + 1] IN
            /\ bidx' = bidx + 1
            /\ IF c \in failing
               THEN bpc' = "aborted" /\ mraised' = "SendError" /\ delivered' = delivered
               ELSE bpc' = "iter" /\ mraised' = mraised /\ delivered' = [delivered EXCEPT ![c] = @ + 1]
    /\ UNCHANGED <<bstart, failing, accepted, active_connections, serverVarsButConns, chatVars, agentVars, tokenVars, endpointVars>>

MgrNext ==
    \/ \E w \in Conns : MgrConnect(w)
    \/ \E w \in Conns : MgrDisconnect(w)
    \/ \E w \in Conns : MgrPeerGone(w)
    \/ MgrBroadcast
    \/ MgrBroadcastStep

\* the registry under arbitrary calls of its methods
SpecManager == Init /\ [][MgrNext]_vars

\* ------------------------------------- tokens: issue and decode by themselves

ACCESS_TOKEN_EXPIRE_MINUTES == 1     \* the token's time to live, in clock units

\* mutant of create_access_token: the token is signed with another key
create_access_token_otherKey(sub, time) ==
    Jwt("other-secret", sub, time + ACCESS_TOKEN_EXPIRE_MINUTES)

\* create_access_token({"sub": sub}) at time `time`: exp = now + TTL,
\* jwt.encode(..., SECRET_KEY)
create_access_token(sub, time) == Jwt(SECRET_KEY, sub, time + ACCESS_TOKEN_EXPIRE_MINUTES)

\* mutant of decode_token: an expired token gets a detail of its own
decode_token_reason(tok, time) ==
    IF DecodeOk(tok, time)
    THEN [status |-> 200, sub |-> tok.sub, at |-> time, detail |-> ""]
    ELSE [status |-> 401, sub |-> NoSub, at |-> time,
          detail |-> IF tok.kind = "jwt" /\ tok.exp < time THEN "Token expired"
                     ELSE "Could not validate credentials"]

\* decode_token(tok) at time `time`: the identity, or the 401
\* credentials_exception, one object built before the token is looked at
decode_token(tok, time) ==
    IF DecodeOk(tok, time)
    THEN [status |-> 200, sub |-> tok.sub, at |-> time, detail |-> ""]
    ELSE [status |-> 401, sub |-> NoSub, at |-> time, detail |-> "Could not validate credentials"]

\* what login_for_access_token answers to a form: 400 with one detail when
\* authenticate_user refuses it, the TokenResponse otherwise
LoginAnswer(u, p) ==
    IF authenticate_user(u, p)
    THEN [status |-> 200, detail |-> "", user |-> u, pw |-> p]
    ELSE [status |-> 400, detail |-> "Incorrect username or password", user |-> u, pw |-> p]

\* the tokens a client can make of the one it was issued: the token itself,
\* one re-signed with another key, one without `sub`, one cut or garbled
Presentable(tok) ==
    {tok, [tok EXCEPT !.secret = "other-secret"], [tok EXCEPT !.sub = NoSub], Garbage}

\* POST /auth/token with credentials that authenticate: the TokenResponse
\* carries create_access_token({"sub": form_data.username})
TokenLogin(u, p) ==
    /\ authenticate_user(u, p)
    /\ issued' = create_access_token(u, clock)
    /\ answer' = LoginAnswer(u, p)
    /\ UNCHANGED <<presented, outcome, serverVars, chatVars, agentVars, managerVars, endpointVars>>

\* POST /auth/token with credentials that do not authenticate: the 400 is
\* raised before the limiter and before any token is made
TokenLoginRefused(u, p) ==
    /\ ~authenticate_user(u, p)
    /\ answer' = LoginAnswer(u, p)
    /\ UNCHANGED <<issued, presented, outcome, serverVars, chatVars, agentVars, managerVars, endpointVars>>

\* decode_token runs on a token made of the issued one
TokenDecode(tok) ==
    /\ issued # NoToken
    /\ tok \in Presentable(issued)
    /\ presented' = tok
    /\ outcome' = decode_token(tok, clock)
    /\ UNCHANGED <<issued, answer, serverVars, chatVars, agentVars, managerVars, endpointVars>>

TokenNext ==
    \/ Tick
    \/ \E u \in Usernames : \E p \in Passwords : TokenLogin(u, p)
    \/ \E u \in Usernames : \E p \in Passwords : TokenLoginRefused(u, p)
    \/ \E tok \in Presentable(issued) : TokenDecode(tok)

\* issuing and decoding tokens as time passes
SpecToken == Init /\ [][TokenNext]_vars

\* ------------------------- /ai/* and /health-services/*: the handler bodies

\* routes whose handler is `try: ... except Exception: return {"error": ...,
\* "fallback...": ...}`
FallbackRoutes ==
    {"/ai/bedrock-analyze", "/ai/sagemaker-predict", "/ai/textract-analyze",
     "/ai/personalize-recommend", "/ai/kendra-search"}

\* routes whose handler is `try: ... except Exception: raise HTTPException(500)`
ReraiseRoutes ==
    {"/ai/predict", "/ai/automate", "/ai/learn", "/health-services/analyze-text",
     "/health-services/healthlake-status", "/health-services/transcribe"}

ServiceRoutes == FallbackRoutes \cup ReraiseRoutes

Texts == {"", "chest pain"}     \* request.get("text", "")

\* a request that passed the guard: its route, its text, whether
\* comprehend_medical_client was created at start-up, and whether the call
\* made in the try block (the collaborator's, where there is one) raises.
\* Only analyze-text reads the text and the client.
ServiceRequests ==
    {r \in [ep : ServiceRoutes, text : Texts, client : BOOLEAN, fails : BOOLEAN] :
        r.ep # "/health-services/analyze-text" => (r.text # "" /\ r.client)}

\* the exception that leaves the try block of the handler, "" if none.
\* analyze_medical_text raises HTTPException(400) inside its try block before
\* it calls detect_entities_v2
TryBody(r) ==
    IF r.ep = "/health-services/analyze-text"
    THEN IF r.text = "" \/ ~r.client THEN "HTTPException(400)"
         ELSE IF r.fails THEN "ClientError"
         ELSE ""
    ELSE IF r.fails THEN "Exception" ELSE ""

\* the handler's answer: the try block's result, or what `except Exception`
\* makes of the exception (HTTPException is an Exception)
ServiceAnswer(r) ==
    IF TryBody(r) = "" THEN [status |-> 200, payload |-> "result"]
    ELSE IF r.ep \in FallbackRoutes THEN [status |-> 200, payload |-> "fallback"]
    ELSE [status |-> 500, payload |-> "error"]

\* a request reaches the handler of a service route
ServiceRequest(r) ==
    /\ svc.pc \in {"idle", "responded"}
    /\ svc' = [ep |-> r.ep, text |-> r.text, client |-> r.client, fails |-> r.fails,
               pc |-> "handler", status |-> 0, payload |-> ""]
    /\ UNCHANGED <<gate, serverVars, chatVars, agentVars, managerVars, tokenVars>>

\* the handler runs and answers
ServiceHandler ==
    /\ svc.pc = "handler"
    /\ svc' = [svc EXCEPT !.pc = "responded",
                          !.status = ServiceAnswer(svc).status,
                          !.payload = ServiceAnswer(svc).payload]
    /\ UNCHANGED <<gate, serverVars, chatVars, agentVars, managerVars, tokenVars>>

ServiceNext ==
    \/ \E r \in ServiceRequests : ServiceRequest(r)
    \/ ServiceHandler

\* the service endpoints behind the guard
SpecService == Init /\ [][ServiceNext]_vars

\* ------------------------------------------- /ag-ui/chat: the permission gate

UserRoles == {"provider", "payer", "patient", "auditor"}     \* UserRole

\* mutant of Permissions: providers may chat
Permissions_chat(role) ==
    IF role = "provider" THEN {"create_claim", "upload_images", "view_status", "chat"}
    ELSE IF role = "payer" THEN {"review_claim", "approve_claim", "audit_trail"}
    ELSE IF role = "patient" THEN {"view_claim", "upload_consent"}
    ELSE IF role = "auditor" THEN {"view_all", "audit_trail", "compliance_report"}
    ELSE {}

\* permissions.get(user_role, [])
Permissions(role) ==
    IF role = "provider" THEN {"create_claim", "upload_images", "view_status"}
    ELSE IF role = "payer" THEN {"review_claim", "approve_claim", "audit_trail"}
    ELSE IF role = "patient" THEN {"view_claim", "upload_consent"}
    ELSE IF role = "auditor" THEN {"view_all", "audit_trail", "compliance_report"}
    ELSE {}

\* return action in permissions.get(user_role, [])
verify_user_permissions(role, action) == action \in Permissions(role)

\* the AGUIRequest bodies that pass validation, as far as the handler and the
\* pipeline read them
GateRequests ==
    [user_role : UserRoles, session_id : {"s-1", "s-2"},
     nphies_data : BOOLEAN, multimodal_data : BOOLEAN]

\* POST /ag-ui/chat arrives with a valid body
GatePost(r) ==
    /\ gate.pc \in {"idle", "responded"}
    /\ gate' = [user_role |-> r.user_role, session_id |-> r.session_id,
                nphies_data |-> r.nphies_data, multimodal_data |-> r.multimodal_data,
                pc |-> "handler", status |-> 0, streaming |-> FALSE]
    /\ UNCHANGED <<svc, serverVars, chatVars, agentVars, managerVars, tokenVars>>

\* handle_ag_ui_request: 403 unless verify_user_permissions(role, "chat"),
\* else the StreamingResponse over event_stream()
GateHandle ==
    /\ gate.pc = "handler"
    /\ gate' = IF ~verify_user_permissions(gate.user_role, "chat")
               THEN [gate EXCEPT !.pc = "responded", !.status = 403]
               ELSE [gate EXCEPT !.pc = "responded", !.status = 200, !.streaming = TRUE]
    /\ UNCHANGED <<svc, serverVars, chatVars, agentVars, managerVars, tokenVars>>

GateNext ==
    \/ \E r \in GateRequests : GatePost(r)
    \/ GateHandle

\* the agent server's chat endpoint
SpecGate == Init /\ [][GateNext]_vars

\* ------------------------------------------------------------ claims C1-C3

Done(t) == pc[t] \in {"admitted", "limited"}
Log(k) == IF k \in DOMAIN log THEN log[k] ELSE <<>>

\* the admissions of key k that are at most window_seconds older than time n
AdmittedWithin(k, n) == {j \in 1..Len(Log(k)) : n - Log(k)[j] <= WindowSeconds}

\* C1: for a single key, a hit() is admitted exactly when fewer than `limit`
\* earlier admitted calls lie within window_seconds before it.  So `limit`
\* consecutive calls inside one window are all admitted, the next one inside
\* that window is rejected (429), and a call made more than window_seconds
\* after the oldest admitted timestamp is admitted again.
C1_SlidingWindow ==
    [][\A t \in Tasks :
          (pc[t] = "check" /\ pc'[t] # "check") =>
              /\ pc'[t] \in {"admitted", "limited"}
              /\ pc'[t] = "admitted" <=> Cardinality(AdmittedWithin(key[t], now[t])) < limit]_vars

\* C1 witness: `limit` admissions, then a rejection still pending in the same
\* window, then an admission more than window_seconds after the oldest one
C1_Witness ==
    \E k \in DOMAIN log : \E t, u \in Tasks :
        /\ Len(log[k]) = limit + 1
        /\ pc[u] = "limited" /\ key[u] = k
        /\ now[u] - log[k][1] <= WindowSeconds
        /\ now[u] >= log[k][limit]
        /\ pc[t] = "admitted" /\ key[t] = k
        /\ now[t] = log[k][limit + 1]
        /\ now[t] - log[k][1] > WindowSeconds

Min(a, b) == IF a < b THEN a ELSE b

\* the tasks whose call of hit() has finished and not yet returned
FirstRound == {t \in Tasks : Done(t)}

\* C2: when K tasks call hit() at once on one key within one window, starting
\* from an empty bucket, exactly min(K, limit) of them are admitted and the
\* others are rejected, whatever the interleaving of their statements.
C2_ConcurrentAdmission ==
    \A k \in HitKeys :
        ( /\ FirstRound # {}
          /\ ncalls = Cardinality(FirstRound)
          /\ \A t \in FirstRound : key[t] = k
          /\ \A t, u \in FirstRound : now[t] - now[u] <= WindowSeconds )
        => /\ Cardinality({t \in FirstRound : pc[t] = "admitted"}) = Min(Cardinality(FirstRound), limit)
           /\ Cardinality({t \in FirstRound : pc[t] = "limited"}) = Cardinality(FirstRound) - Min(Cardinality(FirstRound), limit)

\* C2 witness: K > limit tasks finished on one key within one window, and a
\* task that read the clock later entered the critical section first
C2_Witness ==
    \E k \in HitKeys :
        /\ Cardinality(FirstRound) > limit
        /\ ncalls = Cardinality(FirstRound)
        /\ \A t \in FirstRound : key[t] = k
        /\ \A t, u \in FirstRound : now[t] - now[u] <= WindowSeconds
        /\ \E t, u \in FirstRound : pc[t] = "admitted" /\ pc[u] = "limited" /\ now[t] > now[u]

\* C3: after a hit() that returns successfully the bucket holds at most
\* `limit` timestamps, and every timestamp the prune loop leaves in the
\* bucket is at most window_seconds older than the `now` of that call.
C3_BucketInvariant ==
    /\ \A t \in Tasks : pc[t] = "admitted" => Len(calls[key[t]]) <= limit
    /\ \A t \in Tasks : pc[t] = "check" =>
           \A j \in 1..Len(calls[key[t]]) : now[t] - calls[key[t]][j] <= WindowSeconds

\* C3 witness: an admitted call that filled the bucket after its prune loop
\* had dropped an older admitted timestamp
C3_Witness ==
    \E t \in Tasks :
        /\ pc[t] = "admitted"
        /\ Len(calls[key[t]]) = limit
        /\ \E j \in 1..Len(log[key[t]]) : now[t] - log[key[t]][j] > WindowSeconds

\* ----------------------------------------------------------- claims C4-C8

\* a token that does not validate at time n, stated from the token's fields
BadToken(tok, n) ==
    tok.kind # "jwt" \/ tok.secret # SECRET_KEY \/ tok.exp < n \/ tok.sub = NoSub

\* the key the guard must use for a caller: subject, else peer, else "anonymous"
ExpectedKey(r) ==
    IF r.ep = "/auth/token" THEN r.user
    ELSE IF r.tok.sub # "" THEN r.tok.sub
    ELSE IF r.peer # NoClient THEN r.peer
    ELSE "anonymous"

InHit(t) == pc[t] \in {"hit", "acquire", "prune", "check", "admitted", "limited"}
InBody(t) ==
    \/ req[t].ep \in HttpProtected /\ pc[t] = "handler"
    \/ req[t].ep \in WsRoutes /\ pc[t] \in {"accept", "open", "reply"}

\* C4: the handler body of a protected HTTP endpoint or WebSocket route never
\* runs for a request unless the request's token was validated and the rate
\* limiter admitted it.
C4_HandlerGuarded ==
    \A t \in Tasks :
        (InBody(t) \/ (req[t].ep \in WsRoutes /\ (Registered(t) \/ frames[t] > 0))) =>
            /\ {"token", "hit", "admitted"} \subseteq trail[t]
            /\ req[t].tok.kind = "jwt" /\ req[t].tok.secret = SECRET_KEY /\ req[t].tok.sub # NoSub
            /\ status[t] = 0

\* C4 witness: the body of POST /chat and the body of a WebSocket route both run
C4_Witness ==
    \E t, u \in Tasks :
        /\ req[t].ep = "/chat" /\ pc[t] = "handler" /\ "admitted" \in trail[t]
        /\ req[u].ep \in WsRoutes /\ pc[u] = "open" /\ "admitted" \in trail[u]

\* C5: secure_endpoint validates the token before it consults the rate limiter:
\* a request whose token is missing, invalid or expired is answered 401 and
\* leaves every bucket unchanged, even when the bucket of its key is full; a
\* request with a valid token whose bucket is full is answered 429.
C5_TokenBeforeLimiter ==
    /\ [](\A t \in Tasks : (req[t].ep \in HttpProtected /\ "hit" \in trail[t]) => "token" \in trail[t])
    /\ [][\A t \in Tasks : req[t].ep \in HttpProtected =>
          /\ (pc[t] = "auth" /\ pc'[t] # "auth") =>
                IF BadToken(req[t].tok, clock)
                THEN status'[t] = 401 /\ pc'[t] = "responded" /\ calls' = calls /\ log' = log
                     /\ "hit" \notin trail'[t]
                ELSE pc'[t] = "hit" /\ status'[t] = 0 /\ calls' = calls
          /\ (pc[t] = "check" /\ Len(calls[key[t]]) >= limit) => pc'[t] \in {"check", "limited"}
          /\ (pc[t] = "limited" /\ pc'[t] # "limited") =>
                status'[t] = 429 /\ pc'[t] = "responded" /\ calls' = calls]_vars

\* C5 witness: a request with an expired or forged token of the service account
\* has been answered 401 while the bucket of the service account is full
C5_Witness ==
    \E t \in Tasks :
        /\ req[t].ep \in HttpProtected
        /\ status[t] = 401
        /\ req[t].tok.sub = SERVICE_ACCOUNT_USERNAME
        /\ SERVICE_ACCOUNT_USERNAME \in DOMAIN calls
        /\ Len(calls[SERVICE_ACCOUNT_USERNAME]) >= limit
        /\ \A j \in 1..Len(calls[SERVICE_ACCOUNT_USERNAME]) :
               clock - calls[SERVICE_ACCOUNT_USERNAME][j] <= WindowSeconds

\* C6: a WebSocket handshake with no token or an invalid token is closed with
\* 4401, one with a valid token that the limiter rejects is closed with 4429;
\* such a connection is never added to the ConnectionManager and carries no
\* frame afterwards.
C6_WsRejection ==
    /\ [](\A t \in Tasks : req[t].ep \in WsRoutes =>
            /\ status[t] \in {0, 4401, 4429}
            /\ status[t] = 4401 => "hit" \notin trail[t] /\ "token" \notin trail[t]
            /\ status[t] = 4429 => "token" \in trail[t] /\ "admitted" \notin trail[t]
            /\ status[t] # 0 =>
                  /\ ~Registered(t)
                  /\ frames[t] = 0
                  /\ pc[t] \in {"closing", "responded"})
    /\ [][\A t \in Tasks : req[t].ep \in WsRoutes =>
            /\ (pc[t] = "wsauth" /\ pc'[t] # "wsauth") =>
                  IF BadToken(req[t].tok, clock)
                  THEN status'[t] = 4401 /\ pc'[t] = "closing" /\ calls' = calls
                  ELSE status'[t] = 0 /\ pc'[t] = "hit"
            /\ (pc[t] = "limited" /\ pc'[t] # "limited") =>
                  status'[t] = 4429 /\ pc'[t] = "closing"
            /\ pc[t] = "closing" => pc'[t] \in {"closing", "responded"}]_vars

\* C6 witness: a handshake closed with 4429 because an open WebSocket of the
\* same subject had used up the limit
C6_Witness ==
    \E t, u \in Tasks :
        /\ req[t].ep \in WsRoutes /\ status[t] = 4429 /\ pc[t] = "responded"
        /\ req[u].ep \in WsRoutes /\ Registered(u)

\* C7: every call of POST /auth/token, with correct or incorrect credentials,
\* counts against the bucket of the submitted username (the limiter is
\* consulted before the call is answered).
C7_LoginAlwaysCounted ==
    \A t \in Tasks :
        (req[t].ep = "/auth/token" /\ pc[t] = "responded") => "hit" \in trail[t]

\* C8: HTTP requests, WebSocket handshakes and token issuance draw on one
\* limiter state keyed by subject (else peer address, else "anonymous"), and
\* for one key the admissions of all of them within any window of
\* window_seconds never exceed the limit.
C8_SharedLimiter ==
    /\ \A t \in Tasks : (req[t].ep # NoRoute /\ InHit(t)) => key[t] = ExpectedKey(req[t])
    /\ \A k \in DOMAIN log : \A a \in 1..Len(log[k]) :
           Cardinality({b \in 1..Len(log[k]) :
                           log[k][a] <= log[k][b] /\ log[k][b] - log[k][a] <= WindowSeconds}) <= limit

\* C8 witness: an HTTP call is rejected because a WebSocket handshake of the
\* same subject was admitted within the window
C8_Witness ==
    \E t, u \in Tasks :
        /\ req[t].ep \in HttpProtected /\ pc[t] = "limited"
        /\ req[u].ep \in WsRoutes /\ "admitted" \in trail[u]
        /\ ExpectedKey(req[t]) = ExpectedKey(req[u])
        /\ Len(Log(key[t])) = limit

\* ---------------------------------------------------------- claims C9-C10

\* the positions of the events of one kind in the stream
Kinds(type) == {n \in 1..Len(events) : events[n].type = type}

\* C9: a /chat stream starts with exactly one session_start carrying the
\* session_id and the language; on the success path every thinking and
\* partial_response event precedes the final_response, and the stream ends
\* with exactly one final_response immediately followed by exactly one
\* session_end that carries the session_id of the session_start.
C9_SuccessOrder ==
    /\ Len(events) > 0 =>
          /\ Kinds("session_start") = {1}
          /\ events[1].language = message.language
          /\ events[1].session_id # NoSession
          /\ message.session_id # NoSession => events[1].session_id = message.session_id
    /\ gpc = "done" =>
          /\ Len(events) >= 3
          /\ Kinds("final_response") = {Len(events) - 1}
          /\ Kinds("session_end") = {Len(events)}
          /\ events[Len(events)].session_id = events[1].session_id
          /\ \A n \in Kinds("thinking") \cup Kinds("partial_response") : n < Len(events) - 1

\* C9 witness: a finished stream of several chunks whose session_id was generated
C9_Witness ==
    /\ gpc = "done"
    /\ message.session_id = NoSession
    /\ Cardinality(Kinds("partial_response")) >= 2
    /\ Cardinality(Kinds("thinking")) >= 1

\* C10: when generation fails after session_start was emitted, the stream
\* carries an error event and no session_end.
C10_ErrorEventOnFailure ==
    gpc = "aborted" => Kinds("error") # {} /\ Kinds("session_end") = {}

\* --------------------------------------------------------- claims C11-C12

\* the partial_response events of the stream, in order
Partials ==
    LET IsPartial(e) == e.type = "partial_response" IN SelectSeq(events, IsPartial)

Ceil(a, b) == (a + b - 1) \div b

\* C11: for a response of N >= 1 words and chunk size C the stream carries
\* exactly ceil(N / C) partial_response events once the chunk loop has ended;
\* their progress values lie in [0, 1], never decrease, and the last is 1.0.
C11_ChunkProgress ==
    /\ \A k \in 1..Len(Partials) :
          /\ Partials[k].progress[2] > 0
          /\ 0 <= Partials[k].progress[1]
          /\ Partials[k].progress[1] <= Partials[k].progress[2]
    /\ \A k \in 1..(Len(Partials) - 1) :
          Partials[k].progress[1] * Partials[k + 1].progress[2]
              <= Partials[k + 1].progress[1] * Partials[k].progress[2]
    /\ gpc \in {"end", "done"} =>
          /\ Len(words) >= 1
          /\ Len(Partials) = Ceil(Len(words), chunk_size)
          /\ Partials[Len(Partials)].progress[1] = Partials[Len(Partials)].progress[2]

\* C11 witness: a finished stream whose last chunk is shorter than the others
C11_Witness ==
    /\ gpc = "done"
    /\ Len(words) % chunk_size # 0
    /\ Len(Partials) = 3
    /\ Partials[1].progress[1] < Partials[2].progress[1]

\* the first m words of the response joined by single spaces
ExpectedText(m) ==
    [j \in 1..(2 * m - 1) |-> IF j % 2 = 1 THEN words[(j + 1) \div 2] ELSE Space]

\* C12: the k-th partial_response carries exactly the first min(k * C, N)
\* words of the response joined by single spaces; so each partial text
\* extends the one before it and the last one holds all N words.
C12_PartialText ==
    /\ \A k \in 1..Len(Partials) :
          Partials[k].text = ExpectedText(Min(k * chunk_size, Len(words)))
    /\ \A k \in 1..(Len(Partials) - 1) :
          /\ Len(Partials[k].text) < Len(Partials[k + 1].text)
          /\ SubSeq(Partials[k + 1].text, 1, Len(Partials[k].text)) = Partials[k].text
    /\ gpc \in {"end", "done"} =>
          Partials[Len(Partials)].text = ExpectedText(Len(words))

\* C12 witness: the loop has ended after a full chunk and a shorter last one
C12_Witness ==
    /\ gpc = "end"
    /\ Len(Partials) = 2
    /\ Len(Partials[1].text) = 2 * chunk_size - 1
    /\ Len(Partials[2].text) = 2 * Len(words) - 1
    /\ Len(words) > chunk_size /\ Len(words) < 2 * chunk_size

\* ---------------------------------------------------------------- claim C13

\* C13: when the consumer goes away while the agent generator is suspended
\* at a yield, the generator hands over no further event and closing it
\* raises nothing.
C13_CancelIsQuiet ==
    apc = "closed" => araised = "" /\ Len(aevents) = aclosed

\* ---------------------------------------------------------------- claim C14

\* C14: ConnectionManager.disconnect is idempotent: a call for a connection
\* that is not registered (a second call for the same connection) raises
\* nothing and leaves active_connections unchanged.
C14_DisconnectIdempotent ==
    [][\A w \in Conns :
          (w \in accepted /\ w \notin Range(active_connections) /\ MgrDisconnect(w)) =>
              mraised' = "" /\ active_connections' = active_connections]_vars

\* ---------------------------------------------------------- claims C15-C18

\* C15: when a /ws/chat or /ws/monitoring handler has ended after
\* manager.connect, whatever ended it, its connection is no longer in
\* manager.active_connections.
C15_NoStaleConnection ==
    \A t \in Tasks :
        (req[t].ep \in WsRoutes /\ pc[t] = "responded") => ~Registered(t)

\* C16: a WebSocket connection occurs at most once in
\* manager.active_connections, under every interleaving of the handlers'
\* connect and disconnect calls.
C16_NoDuplicates ==
    \A a, b \in 1..Len(active_connections) :
        a # b => active_connections[a] # active_connections[b]

\* C16 witness: two handlers have connected, interleaved at their accepts,
\* and one of them has left again
C16_Witness ==
    \E t, u \in Tasks :
        /\ req[t].ep = "/ws/chat" /\ pc[t] = "open" /\ Registered(t)
        /\ req[u].ep = "/ws/monitoring" /\ pc[u] = "responded" /\ "admitted" \in trail[u]
        /\ req[t].id < req[u].id
        /\ Len(active_connections) = 1

\* C17: broadcast is best-effort: when the send to one registered connection
\* fails, broadcast does not abort and every other registered connection
\* still gets the payload (stated for a registry that no connect or
\* disconnect changed during the broadcast).
C17_BroadcastBestEffort ==
    (bpc \in {"done", "aborted"} /\ active_connections = bstart) =>
        /\ bpc = "done"
        /\ \A c \in Range(bstart) \ failing : delivered[c] = 1

\* C18: a connect or disconnect that runs while broadcast is suspended in a
\* send does not disturb it: every connection registered when the broadcast
\* began and still registered when it ends has received the payload exactly
\* once (stated for broadcasts in which no send fails).
C18_BroadcastSnapshot ==
    (bpc = "done" /\ failing = {}) =>
        \A c \in Range(bstart) \cap Range(active_connections) : delivered[c] = 1

\* ---------------------------------------------------------- claims C19-C20

\* C19: a token that POST /auth/token returned for the service account
\* decodes through decode_token, at any time up to its expiry, to the
\* subject that is the submitted username.
C19_TokenRoundTrip ==
    /\ []((outcome.status # 0 /\ presented = issued /\ outcome.at <= issued.exp) =>
             (outcome.status = 200 /\ outcome.sub = SERVICE_ACCOUNT_USERNAME))
    /\ [][\A u \in Usernames : \A p \in Passwords :
             TokenLogin(u, p) => (u = SERVICE_ACCOUNT_USERNAME /\ issued'.sub = u /\ issued'.exp > clock)]_vars

\* C19 witness: the issued token was decoded at a later time, still valid
C19_Witness ==
    /\ presented = issued
    /\ outcome.status = 200
    /\ outcome.at = issued.exp
    /\ outcome.sub = SERVICE_ACCOUNT_USERNAME

\* C20: decode_token answers 401 and returns no identity for every token
\* that is expired, signed with a different secret, structurally altered, or
\* without a `sub` claim.
C20_DecodeRejects ==
    (outcome.status # 0 /\
       ( \/ presented.exp < outcome.at
         \/ presented.secret # SECRET_KEY
         \/ presented.kind # "jwt"
         \/ presented.sub = NoSub )) =>
        (outcome.status = 401 /\ outcome.sub = NoSub)

\* C20 witness: the issued token itself is rejected once its expiry has passed
C20_Witness ==
    /\ presented = issued
    /\ presented.kind = "jwt" /\ presented.secret = SECRET_KEY /\ presented.sub # NoSub
    /\ outcome.at > presented.exp
    /\ outcome.status = 401

\* ---------------------------------------------------------------- claim C21

\* what the client sees of an answer
Seen(r) == <<r.status, r.detail>>

\* C21: the client cannot tell failure reasons apart: a refused login gets
\* the same status and detail whether the username is unknown or the password
\* is wrong, and decode_token answers the same 401 to expired, re-signed,
\* malformed and subject-less tokens.
C21_NoReasonOracle ==
    /\ (answer.status # 0 /\ ~(answer.user = SERVICE_ACCOUNT_USERNAME /\
                                answer.pw = SERVICE_ACCOUNT_PASSWORD)) =>
          /\ answer.status = 400
          /\ \A u \in Usernames : \A p \in Passwords :
                (u # SERVICE_ACCOUNT_USERNAME \/ p # SERVICE_ACCOUNT_PASSWORD) =>
                    Seen(LoginAnswer(u, p)) = Seen(answer)
    /\ (outcome.status # 0 /\ BadToken(presented, outcome.at)) =>
          /\ outcome.status = 401
          /\ \A tok \in Presentable(issued) : \A n \in 0..MaxTime :
                BadToken(tok, n) => Seen(decode_token(tok, n)) = Seen(outcome)

\* C21 witness: a login with an unknown username was refused, and the issued
\* token was refused after its expiry
C21_Witness ==
    /\ answer.status = 400
    /\ answer.user # SERVICE_ACCOUNT_USERNAME
    /\ outcome.status = 401
    /\ presented = issued
    /\ outcome.at > presented.exp

\* ---------------------------------------------------------------- claim C22

\* C22: for each WebSocket connection the rate limiter is consulted exactly
\* once, during the handshake and before manager.connect; frames received or
\* sent on the established connection change no bucket.
C22_LimiterOncePerConnection ==
    [][\A t \in Tasks : req[t].ep \in WsRoutes =>
          \* hit() starts only for a connection that has not been through it
          /\ (pc[t] = "hit" /\ pc'[t] # "hit") => "hit" \notin trail[t]
          \* manager.connect runs only after hit() was called and admitted
          /\ (pc[t] = "accept" /\ pc'[t] = "open") =>
                ({"hit", "admitted"} \subseteq trail[t] /\ ~Registered(t))
          \* a frame leaves every bucket alone
          /\ frames'[t] > frames[t] => (calls' = calls /\ "admitted" \in trail'[t])]_vars

\* C22 witness: an established /ws/chat connection has received a frame and
\* sent its reply
C22_Witness ==
    \E t \in Tasks :
        /\ req[t].ep = "/ws/chat"
        /\ pc[t] = "open"
        /\ Registered(t)
        /\ frames[t] = 2
        /\ {"hit", "admitted"} \subseteq trail[t]

\* ---------------------------------------------------------------- claim C23

\* C23: on an established /ws/chat connection every inbound text frame that
\* is a JSON object triggers exactly one outbound ai_response frame, in the
\* order of receipt, and no ai_response goes out without an inbound frame
\* before it.
C23_OneReplyPerFrame ==
    [][\A t \in Tasks : req[t].ep = "/ws/chat" =>
          \* a JSON object is followed by its reply
          /\ \A f \in JsonObjects : WsReceive(t, f) => pc'[t] = "reply"
          \* the reply is one frame, sent before the next receive
          /\ (pc[t] = "reply" /\ pc'[t] # "reply") =>
                (pc'[t] = "open" /\ frames'[t] = frames[t] + 1)
          \* nothing is sent but a reply to the frame just received
          /\ (frames'[t] > frames[t] /\ pc'[t] = "open") => pc[t] = "reply"]_vars

\* ---------------------------------------------------------------- claim C24

\* C24: when the collaborator call of an /ai/* or /health-services/* endpoint
\* fails, the endpoint answers with a structured fallback payload in a normal
\* response, never with an error status.
C24_FallbackOnFailure ==
    (svc.pc = "responded" /\ svc.fails /\ svc.text # "" /\ svc.client) =>
        (svc.status = 200 /\ svc.payload = "fallback")

\* ---------------------------------------------------------------- claim C30

\* C30: POST /health-services/analyze-text answers 400 when the request text
\* is empty or the Comprehend Medical client is unavailable.
C30_AnalyzeTextBadRequest ==
    (svc.pc = "responded" /\ svc.ep = "/health-services/analyze-text" /\
       (svc.text = "" \/ ~svc.client)) =>
        svc.status = 400

\* ---------------------------------------------------------------- claim C25

Ordered(bucket) == \A a, b \in 1..Len(bucket) : a < b => bucket[a] <= bucket[b]

\* C25: in every reachable state every key's bucket lists its timestamps in
\* non-decreasing order, oldest first, also with several calls of hit() for
\* the key under way, so that the prune loop, which stops at the first
\* timestamp inside the window, leaves no expired timestamp behind.
C25_BucketOrdered ==
    /\ \A k \in DOMAIN calls : Ordered(calls[k])
    /\ \A t \in Tasks : pc[t] = "check" =>
           \A j \in 1..Len(calls[key[t]]) : ~PruneCond(<<calls[key[t]][j]>>, now[t])

\* C25 witness: two calls for one key are under way, both admitted at
\* different times, and the bucket holds both timestamps
C25_Witness ==
    \E t, u \in Tasks :
        /\ t # u /\ key[t] = key[u]
        /\ pc[t] = "admitted" /\ pc[u] = "admitted"
        /\ now[t] < now[u]
        /\ calls[key[t]] = <<now[t], now[u]>>

\* ---------------------------------------------------------------- claim C28

\* C28: a rejected hit() appends no timestamp: all it does to the key's
\* bucket is to drop expired entries from the head, so a rejected call never
\* extends the time the key stays throttled.
C28_RejectedLeavesBucket ==
    [][\A t \in Tasks :
          \* the rejection itself changes no bucket
          /\ (pc[t] = "check" /\ pc'[t] = "limited") => calls' = calls
          \* a step of the prune loop drops the head, and only if it is expired
          /\ (pc[t] = "prune" /\ calls' # calls) =>
                /\ now[t] - Head(calls[key[t]]) > WindowSeconds
                /\ calls' = [calls EXCEPT ![key[t]] = Tail(@)]
          \* reading the clock and taking the lock change no existing bucket
          /\ pc[t] \in {"hit", "acquire"} =>
                \A k \in DOMAIN calls : k \in DOMAIN calls' /\ calls'[k] = calls[k]]_vars

\* C28 witness: a call made after the admitted one was rejected, and the
\* bucket still holds the admitted timestamps only
C28_Witness ==
    \E t \in Tasks :
        /\ pc[t] = "limited"
        /\ Len(calls[key[t]]) = limit
        /\ calls[key[t]] = log[key[t]]
        /\ \A j \in 1..Len(calls[key[t]]) : calls[key[t]][j] < now[t]

\* ---------------------------------------------------------------- claim C29

\* C29: hit(key) touches the bucket of `key` only: every other key's bucket
\* is the same after each of its statements, whether the call ends admitted
\* or rejected, and no key ever leaves the limiter.
C29_OnlyOwnBucket ==
    [][/\ DOMAIN calls \subseteq DOMAIN calls'
       /\ \A t \in Tasks :
             (HitClock(t) \/ HitAcquire(t) \/ HitPrune(t) \/ HitCheck(t)) =>
                 \A k \in DOMAIN calls : k # key[t] => calls'[k] = calls[k]
       /\ calls' # calls =>
             \E t \in Tasks : HitAcquire(t) \/ HitPrune(t) \/ HitCheck(t)]_vars

\* C29 witness: one key's call was rejected and another key's call admitted,
\* and both buckets hold their own timestamps
C29_Witness ==
    \E t, u \in Tasks :
        /\ key[t] # key[u]
        /\ pc[t] = "limited" /\ pc[u] = "admitted"
        /\ calls[key[t]] = log[key[t]]
        /\ calls[key[u]] = <<now[u]>>

\* ---------------------------------------------------------------- claim C26

\* how often event type x occurs in a stream
Count(stream, x) == Cardinality({n \in 1..Len(stream) : stream[n] = x})

\* C26: every run of process_nphies_request that is drained to its end starts
\* with TOOL_CALL_START and ends with TOOL_CALL_END then COMPLETE, each
\* emitted once; when the pipeline raises, exactly one ERROR event is emitted,
\* and it comes before TOOL_CALL_END and COMPLETE.
C26_AgentStreamShape ==
    /\ apc = "y_error" =>
          (aevents[Len(aevents)] = "error" /\ Count(aevents, "error") = 1)
    /\ apc = "done" =>
          /\ Len(aevents) >= 3
          /\ aevents[1] = "tool_call_start"
          /\ aevents[Len(aevents) - 1] = "tool_call_end"
          /\ aevents[Len(aevents)] = "complete"
          /\ Count(aevents, "tool_call_start") = 1
          /\ Count(aevents, "tool_call_end") = 1
          /\ Count(aevents, "complete") = 1
          /\ Count(aevents, "error") <= 1
          /\ Count(aevents, "error") = 1 => aevents[Len(aevents) - 2] = "error"
          /\ Count(aevents, "error") = 0 => aevents[Len(aevents) - 2] = "text_message_content"

\* C26 witness: a run whose pipeline raised after the FHIR validation event
\* was drained to its end
C26_Witness ==
    /\ apc = "done"
    /\ aevents = <<"tool_call_start", "state_delta", "error", "tool_call_end", "complete">>

\* ---------------------------------------------------------------- claim C27

====
